---- MODULE Spec2Model ----
(***************************************************************************)
(* A model of the wave-collapse solver: the generator collapse_wave        *)
(* (src/src/lib.rs), the rectangular shape TileMap2D with its cutoff and   *)
(* wrapping kernels (src/src/tile2d.rs) and the draining call calc_result  *)
(* (src/src/gen_iter_return_result.rs).                                    *)
(*                                                                         *)
(* A cell id is the pair <<x, y>>.  The candidate list of a cell is a      *)
(* sequence of values.  The generator is run one step at a time: its       *)
(* position is pc.  A panic of the code (a failed expect, a RefCell that   *)
(* is borrowed while mutably borrowed) is the position "panicked".         *)
(***************************************************************************)
EXTENDS Integers, Sequences, FiniteSets, TLC

\* Bound of the model: the largest number of cells of a grid.
MaxCells == 4

\* Bound of the model: the next() calls followed after the generator's return.
MaxNones == 2

\* Bound of the model: the largest width and height of the grids whose
\* kernels are enumerated on their own.
MaxGrid == 4

\* The candidate values of the scenarios.
Values == {"A", "B"}

\* The candidate lists a grid is seeded with (TileMap2D::new requires a
\* non-empty list).
TileLists == {<<"A">>, <<"B">>, <<"A", "B">>, <<"B", "A">>}

\* Kernel widths and heights (TileMap2D::new requires odd ones).
KernelDims == {1, 3}

\* The two border policies of tile2d.rs.
WrappingModes == {"Cutoff", "Wrapping"}

\* The compatibility predicates the runs are checked with.
\*   "true", "false": constant predicates;
\*   "neq":  every neighbour has some candidate different from the value;
\*   "eq":   every neighbour has some candidate equal to the value;
\*   "isA":  the value is "A" (the kernel is not read).
Solvers == {"true", "false", "neq", "eq", "isA"}

NoNode == <<>>

VARIABLES
    size,          \* TileMap2D.size: [width, height]
    kernel_size,   \* TileMap2D.kernel_size: [width, height]
    mode,          \* the WrappingMode of the kernel
    solver,        \* the compatibility predicate
    tiles,         \* the possible_values the grid was built with
    nodes,         \* id -> candidate list (Node.possible_values)
    pc,            \* position of the generator
    first_node,    \* the cell selected in this outer iteration, or NoNode
    open_list,     \* the BinaryHeap of the propagation loop, as its array
    drawn,         \* the indices the random source has produced so far
    ret,           \* GenIterReturn's stored return value, or Nothing
    yields,        \* number of snapshots the generator has yielded
    finalizing,    \* calc_result has been called
    pulled,        \* snapshots the caller got from next() before calc_result
    result,        \* what calc_result returned, or Nothing
    collapsed,     \* the cells collapse_node has been called on
    filtered,      \* the cells popped and filtered in this outer iteration
    nones,         \* the next() calls answered None after the return
    kernel,        \* the Kernel2D last built on its own, or NoKernel
    mutated,       \* the cell whose possible_values the last pass borrowed
    reads,         \* the cells the predicate read through the kernel then
    last_collapsed,\* TileMap2D::last_collapsed, <<>> for None
    heap_set       \* a BinaryHeapSet on its own

vars == <<size, kernel_size, mode, solver, tiles, nodes, pc, first_node,
          open_list, drawn, ret, yields, finalizing, pulled, result,
          collapsed, filtered, nones, kernel, mutated, reads,
          last_collapsed, heap_set>>

----------------------------------------------------------------------------
\* Results

Nothing == [kind |-> "None"]
OkShape(ns) == [kind |-> "Ok", shape |-> ns]
ErrKind(e) == [kind |-> "Err", error |-> e]

----------------------------------------------------------------------------
\* TileMap2D

\* TileMap2D::iter_node_ids: y outer, x inner.
IterNodeIds(sz) ==
    [i \in 1..(sz.width * sz.height) |->
        <<(i - 1) % sz.width, (i - 1) \div sz.width>>]

SeqToSet(s) == {s[i] : i \in 1..Len(s)}

Ids(sz) == SeqToSet(IterNodeIds(sz))

\* TileMap2D::new: every cell gets a clone of possible_values.
NewTileMap(sz, values) == [id \in Ids(sz) |-> values]

\* TileMap2D::get_node: None outside the grid.
GetNode(sz, x, y) ==
    IF x >= 0 /\ x < sz.width /\ y >= 0 /\ y < sz.height
    THEN <<x, y>> ELSE NoNode

\* Node::possibilities
Possibilities(ns, id) == Len(ns[id])

\* Node::is_collapsed of lib.rs: exactly one candidate.
NodeIsCollapsed(ns, id) == Len(ns[id]) = 1

\* Node::is_overspecified: no candidate.
NodeIsOverspecified(ns, id) == Len(ns[id]) = 0

\* WaveShape::is_collapsed: all nodes are collapsed.
ShapeIsCollapsed(ns) == \A id \in DOMAIN ns : NodeIsCollapsed(ns, id)

\* WaveShape::is_overspecified: the code asks for all nodes.
ShapeIsOverspecified(ns) == \A id \in DOMAIN ns : NodeIsOverspecified(ns, id)

----------------------------------------------------------------------------
\* Kernel2D

\* Kernel2D::new: the radii.
RadiusX(ks) == (ks.width - 1) \div 2
RadiusY(ks) == (ks.height - 1) \div 2

Abs(n) == IF n < 0 THEN -n ELSE n
Max(a, b) == IF a >= b THEN a ELSE b
Min(a, b) == IF a <= b THEN a ELSE b

\* The remainder of Rust's % operator, which keeps the sign of a.
RemTruncated(a, m) == IF a < 0 THEN -((-a) % m) ELSE a % m

\* i64::rem_euclid for a positive modulus.
RemEuclid(a, m) == a % m

\* A get that reduces the coordinate modulo the size of the grid.
KernelGetWrapping(sz, ks, c, dx, dy) ==
    IF Abs(dx) > RadiusX(ks) \/ Abs(dy) > RadiusY(ks)
    THEN NoNode
    ELSE GetNode(sz, (c[1] + dx) % sz.width, (c[2] + dy) % sz.height)

\* Kernel2D::get: the offset is added to the centre and cast to u32, so a
\* negative coordinate becomes a huge one and get_node answers None.  The
\* same code serves both wrapping modes.
KernelGet(sz, ks, c, dx, dy) ==
    IF Abs(dx) > RadiusX(ks) \/ Abs(dy) > RadiusY(ks)
    THEN NoNode
    ELSE GetNode(sz, c[1] + dx, c[2] + dy)

\* The ids from <<x_min, y_min>> to <<x_max, y_max>>, y outer, x inner.
RectIds(x_min, x_max, y_min, y_max) ==
    LET w == x_max - x_min + 1
        h == y_max - y_min + 1
    IN  IF w <= 0 \/ h <= 0 THEN <<>>
        ELSE [i \in 1..(w * h) |->
                <<x_min + ((i - 1) % w), y_min + ((i - 1) \div w)>>]

\* Kernel2D<Cutoff>::iter_node_ids
CutoffIterNodeIds(sz, ks, c) ==
    RectIds(Max(c[1] - RadiusX(ks), 0), Min(c[1] + RadiusX(ks), sz.width - 1),
            Max(c[2] - RadiusY(ks), 0), Min(c[2] + RadiusY(ks), sz.height - 1))

\* Kernel2D<Wrapping>::iter_node_ids
WrappingIterNodeIds(sz, ks, c) ==
    LET r == RectIds(c[1] - RadiusX(ks), c[1] + RadiusX(ks),
                     c[2] - RadiusY(ks), c[2] + RadiusY(ks))
    IN  [i \in 1..Len(r) |->
            <<RemEuclid(r[i][1], sz.width), RemEuclid(r[i][2], sz.height)>>]

KernelIterNodeIds(m, sz, ks, c) ==
    IF m = "Cutoff" THEN CutoffIterNodeIds(sz, ks, c)
    ELSE WrappingIterNodeIds(sz, ks, c)

\* No kernel has been built.
NoLookup == [x |-> 0, y |-> 0, node |-> NoNode, done |-> FALSE]

NoKernel == [node_id |-> NoNode, ids |-> <<>>, lookup |-> NoLookup]

\* WaveKernel::new for a node, with the ids its iter_node_ids enumerates.
NewKernel(m, sz, ks, c) ==
    [node_id |-> c, ids |-> KernelIterNodeIds(m, sz, ks, c),
     lookup |-> NoLookup]

----------------------------------------------------------------------------
\* The compatibility predicate (WaveSolver::is_valid)

\* The offsets a predicate looks at: all of the kernel but the centre.
NeighbourOffsets(ks) ==
    {o \in (-RadiusX(ks)..RadiusX(ks)) \X (-RadiusY(ks)..RadiusY(ks)) :
        o # <<0, 0>>}

\* The cells kernel.get answers for those offsets.
KernelNeighbours(sz, ks, c) ==
    {KernelGet(sz, ks, c, o[1], o[2]) : o \in NeighbourOffsets(ks)} \ {NoNode}

IsValid(s, v, ns, sz, ks, c) ==
    CASE s = "true"  -> TRUE
      [] s = "false" -> FALSE
      [] s = "isA"   -> v = "A"
      [] s = "neq"   -> \A n \in KernelNeighbours(sz, ks, c) :
                            \E i \in 1..Len(ns[n]) : ns[n][i] # v
      [] s = "eq"    -> \A n \in KernelNeighbours(sz, ks, c) :
                            \E i \in 1..Len(ns[n]) : ns[n][i] = v

\* The cells whose possible_values the predicate reads through the kernel
\* while the list ns[c] is filtered: retain calls it once for every value.
KernelReads(s, ns, sz, ks, c) ==
    IF s \in {"neq", "eq"} /\ ns[c] # <<>>
    THEN KernelNeighbours(sz, ks, c)
    ELSE {}

----------------------------------------------------------------------------
\* std::collections::BinaryHeap<Reverse<&Node>>, as lib.rs uses it.  The heap
\* is its array (index 0 of the code is index 1 here).  The order of two
\* entries is read from the cells at the moment of the comparison.

PanicHeap == [panic |-> TRUE, data |-> <<>>]
OkHeap(d) == [panic |-> FALSE, data |-> d]

\* Node::cmp borrows possible_values of both nodes unless their ids are
\* equal; `borrowed` is the node whose list is mutably borrowed (or NoNode).
CmpPanics(a, b, borrowed) == a # b /\ (a = borrowed \/ b = borrowed)

\* Reverse(a) <= Reverse(b), that is b <= a by Node::cmp: equal ids are
\* equal, otherwise the entropies decide.
RevLe(a, b, ns) == a = b \/ Possibilities(ns, b) <= Possibilities(ns, a)

\* BinaryHeap::sift_up(start, pos) for the element e held out of the array.
RECURSIVE SiftUp(_, _, _, _, _, _)
SiftUp(data, start, pos, e, ns, borrowed) ==
    IF pos > start
    THEN LET parent == (pos - 1) \div 2
         IN  IF CmpPanics(e, data[parent + 1], borrowed) THEN PanicHeap
             ELSE IF RevLe(e, data[parent + 1], ns)
                  THEN OkHeap([data EXCEPT ![pos + 1] = e])
                  ELSE SiftUp([data EXCEPT ![pos + 1] = data[parent + 1]],
                              start, parent, e, ns, borrowed)
    ELSE OkHeap([data EXCEPT ![pos + 1] = e])

\* BinaryHeap::push
HeapPush(data, e, ns, borrowed) ==
    SiftUp(Append(data, e), 0, Len(data), e, ns, borrowed)

\* The loop of BinaryHeap::sift_down_to_bottom: the hole moves down to the
\* greater child until it has fewer than two children.
RECURSIVE SiftDownLoop(_, _, _)
SiftDownLoop(data, hole, ns) ==
    LET end == Len(data)
        child == 2 * hole + 1
    IN  IF end >= 2 /\ child <= end - 2
        THEN LET c == IF RevLe(data[child + 1], data[child + 2], ns)
                      THEN child + 1 ELSE child
             IN  SiftDownLoop([data EXCEPT ![hole + 1] = data[c + 1]], c, ns)
        ELSE IF child = end - 1
             THEN [data |-> [data EXCEPT ![hole + 1] = data[child + 1]],
                   hole |-> child]
             ELSE [data |-> data, hole |-> hole]

\* BinaryHeap::pop on a non-empty heap: the last entry replaces the root and
\* is sifted down to the bottom and up again.  No list is borrowed here.
HeapPop(data, ns) ==
    LET last == data[Len(data)]
        rest == SubSeq(data, 1, Len(data) - 1)
    IN  IF rest = <<>>
        THEN [item |-> last, data |-> <<>>]
        ELSE LET down == SiftDownLoop(rest, 0, ns)
             IN  [item |-> rest[1],
                  data |-> SiftUp(down.data, 0, down.hole, last, ns, NoNode).data]

\* The for loop of lines 275-280: push the ids in order.
RECURSIVE PushAll(_, _, _, _)
PushAll(data, ids, ns, borrowed) ==
    IF ids = <<>> THEN OkHeap(data)
    ELSE LET h == HeapPush(data, Head(ids), ns, borrowed)
         IN  IF h.panic THEN h ELSE PushAll(h.data, Tail(ids), ns, borrowed)

----------------------------------------------------------------------------
\* The generator of collapse_wave, one step per operator.  g is the record of
\* the generator's state; size, kernel_size, mode and solver do not change.

----------------------------------------------------------------------------
\* BinaryHeapSet<T>: a BinaryHeap and a HashSet of the same values.  Node
\* hashes and compares equal by its id, so the set is a set of ids.  `last`
\* records the last call: its argument or popped value, what it returned and
\* whether the value was in the heap before the call; `popped` is the value
\* of the latest successful pop.

NoCall == [op |-> "none", value |-> NoNode, ret |-> FALSE, enqueued |-> FALSE]

NewHeapSet == [heap |-> <<>>, set |-> {}, last |-> NoCall, popped |-> NoNode]

HeapSetPush(hs, x, ns) ==
    LET was == \E i \in 1..Len(hs.heap) : hs.heap[i] = x
    IN  IF x \notin hs.set
        THEN [hs EXCEPT !.heap = HeapPush(hs.heap, x, ns, NoNode).data,
                        !.set = hs.set \cup {x},
                        !.last = [op |-> "push", value |-> x, ret |-> TRUE,
                                  enqueued |-> was]]
        ELSE [hs EXCEPT !.last = [op |-> "push", value |-> x, ret |-> FALSE,
                                  enqueued |-> was]]

\* A pop that leaves the popped value in the set.
HeapSetPopKeepsSet(hs, ns) ==
    IF hs.heap = <<>>
    THEN [hs EXCEPT !.last = [op |-> "pop", value |-> NoNode, ret |-> FALSE,
                              enqueued |-> FALSE]]
    ELSE LET p == HeapPop(hs.heap, ns)
         IN  [hs EXCEPT !.heap = p.data,
                        !.last = [op |-> "pop", value |-> p.item,
                                  ret |-> TRUE, enqueued |-> TRUE],
                        !.popped = p.item]

HeapSetPop(hs, ns) ==
    IF hs.heap = <<>>
    THEN [hs EXCEPT !.last = [op |-> "pop", value |-> NoNode, ret |-> FALSE,
                              enqueued |-> FALSE]]
    ELSE LET p == HeapPop(hs.heap, ns)
         IN  [hs EXCEPT !.heap = p.data,
                        !.set = hs.set \ {p.item},
                        !.last = [op |-> "pop", value |-> p.item,
                                  ret |-> TRUE, enqueued |-> TRUE],
                        !.popped = p.item]

Gen == [nodes |-> nodes, pc |-> pc, first_node |-> first_node,
        open_list |-> open_list, drawn |-> drawn, ret |-> ret,
        yields |-> yields, collapsed |-> collapsed, filtered |-> filtered,
        mutated |-> mutated, reads |-> reads]

\* A panic unwinds out of the generator.
Panicked(g) == [g EXCEPT !.pc = "panicked"]

\* A return whose value is lost when the caller's own next() receives it.
ReturnLostOutsideDrain(g, r) ==
    [g EXCEPT !.pc = "returned", !.ret = IF finalizing THEN r ELSE Nothing]

\* `return r` of the generator; GenIterReturn keeps r.
Return(g, r) == [g EXCEPT !.pc = "returned", !.ret = r]

\* Resuming the generator: from its start, or from the yield to the top of
\* the loop.
ResumeGen(g) ==
    [g EXCEPT !.pc = IF g.pc = "unresumed" THEN "begin" ELSE "loop"]

\* The generator without the check for an empty shape.
CheckEmptySkipped(g) == [g EXCEPT !.pc = "loop"]

\* Lines 232-236: the empty shape.
CheckEmpty(g) ==
    IF Len(IterNodeIds(size)) = 0
    THEN Return(g, ErrKind("EmptyInput"))
    ELSE [g EXCEPT !.pc = "loop"]

\* Lines 238-244: the checks at the top of the loop.
LoopTop(g) ==
    IF ShapeIsCollapsed(g.nodes) THEN Return(g, OkShape(g.nodes))
    ELSE IF ShapeIsOverspecified(g.nodes)
         THEN Return(g, ErrKind("InvalidSuperposition"))
         ELSE [g EXCEPT !.pc = "select"]

\* Lines 249-255: the first node, in iteration order, of least possibilities
\* among the nodes that are not collapsed (Iterator::min_by_key answers the
\* first minimum).
MinByKey(ns) ==
    LET open == SelectSeq(IterNodeIds(size), LAMBDA id : ~NodeIsCollapsed(ns, id))
    IN  IF open = <<>> THEN NoNode
        ELSE LET i == CHOOSE i \in 1..Len(open) :
                        /\ \A j \in 1..Len(open) :
                              Possibilities(ns, open[i]) <= Possibilities(ns, open[j])
                        /\ \A j \in 1..(i - 1) :
                              Possibilities(ns, open[j]) > Possibilities(ns, open[i])
             IN  open[i]

SelectFirstNode(g) ==
    LET n == MinByKey(g.nodes)
    IN  IF n = NoNode THEN Panicked(g)
        ELSE [g EXCEPT !.first_node = n, !.pc = "collapse"]

\* The indices SliceRandom::choose can draw for the selected node.
Choices(g) == 1..Len(g.nodes[g.first_node])

\* Lines 259-262 and collapse_node: the node keeps the value drawn (index d);
\* choose answers None on an empty list and the expect panics.  The heap
\* starts with the node.
\* A collapse_node that pushes the drawn value without clearing the list.
CollapseNodeWithoutClear(g, d) ==
    IF Len(g.nodes[g.first_node]) = 0 THEN Panicked(g)
    ELSE [g EXCEPT !.nodes[g.first_node] =
                       Append(g.nodes[g.first_node], g.nodes[g.first_node][d]),
                   !.drawn = Append(g.drawn, d),
                   !.collapsed = g.collapsed \cup {g.first_node},
                   !.filtered = {},
                   !.open_list = HeapPush(<<>>, g.first_node, g.nodes, NoNode).data,
                   !.pc = "propagate"]

CollapseNode(g, d) ==
    IF Len(g.nodes[g.first_node]) = 0 THEN Panicked(g)
    ELSE [g EXCEPT !.nodes[g.first_node] = <<g.nodes[g.first_node][d]>>,
                   !.drawn = Append(g.drawn, d),
                   !.collapsed = g.collapsed \cup {g.first_node},
                   !.filtered = {},
                   !.open_list = HeapPush(<<>>, g.first_node, g.nodes, NoNode).data,
                   !.pc = "propagate"]

\* Vec::retain with the solver's predicate on the node's kernel.
Retain(ns, n) ==
    SelectSeq(ns[n], LAMBDA v : IsValid(solver, v, ns, size, kernel_size, n))

\* Lines 265-283: one pass of the while loop.  The node's list stays
\* mutably borrowed until the end of the pass, so the pushes compare nodes
\* while it is borrowed.
PropagateNode(g) ==
    LET p == HeapPop(g.open_list, g.nodes)
        n == p.item
        kept == Retain(g.nodes, n)
        ns == [g.nodes EXCEPT ![n] = kept]
        others == SelectSeq(KernelIterNodeIds(mode, size, kernel_size, n),
                            LAMBDA id : id # n)
        pushed == PushAll(p.data, others, ns, n)
        rd == KernelReads(solver, g.nodes, size, kernel_size, n)
    IN  IF Len(g.nodes[n]) # Len(kept)
        THEN IF pushed.panic
             THEN Panicked([g EXCEPT !.nodes = ns, !.open_list = p.data,
                                     !.filtered = g.filtered \cup {n},
                                     !.mutated = n, !.reads = rd])
             ELSE [g EXCEPT !.nodes = ns, !.open_list = pushed.data,
                            !.filtered = g.filtered \cup {n},
                       !.mutated = n, !.reads = rd]
        ELSE [g EXCEPT !.nodes = ns, !.open_list = p.data,
                       !.filtered = g.filtered \cup {n},
                       !.mutated = n, !.reads = rd]

\* Line 288: the yield.
YieldShape(g) == [g EXCEPT !.pc = "suspended", !.yields = g.yields + 1]

----------------------------------------------------------------------------
\* GenIterReturnResult::calc_result: after the drain, the stored return value
\* or IterationError.
ReturnOrSelf(r) == IF r # Nothing THEN r ELSE ErrKind("IterationError")

----------------------------------------------------------------------------
\* The state machine

Sizes == {sz \in [width : 0..MaxCells, height : 0..MaxCells] :
            sz.width * sz.height <= MaxCells}

Init ==
    /\ size \in Sizes
    /\ kernel_size \in [width : KernelDims, height : KernelDims]
    /\ mode \in WrappingModes
    /\ solver \in Solvers
    /\ tiles \in TileLists
    /\ nodes = NewTileMap(size, tiles)
    /\ pc = "unresumed"
    /\ first_node = NoNode
    /\ open_list = <<>>
    /\ drawn = <<>>
    /\ ret = Nothing
    /\ yields = 0
    /\ finalizing = FALSE
    /\ pulled = 0
    /\ result = Nothing
    /\ collapsed = {}
    /\ filtered = {}
    /\ nones = 0
    /\ kernel = NoKernel
    /\ mutated = NoNode
    /\ reads = {}
    /\ last_collapsed = NoNode
    /\ heap_set = NewHeapSet

Inputs == <<size, kernel_size, mode, solver, tiles>>

\* What collapse_wave never touches: the kernel and the BinaryHeapSet that
\* are exercised on their own, and the shape's last_collapsed.
Apart == <<kernel, last_collapsed, heap_set>>

SetGen(g) ==
    /\ nodes' = g.nodes
    /\ pc' = g.pc
    /\ first_node' = g.first_node
    /\ open_list' = g.open_list
    /\ drawn' = g.drawn
    /\ ret' = g.ret
    /\ yields' = g.yields
    /\ collapsed' = g.collapsed
    /\ filtered' = g.filtered
    /\ mutated' = g.mutated
    /\ reads' = g.reads

GenVars == <<nodes, pc, first_node, open_list, drawn, ret, yields,
             collapsed, filtered, mutated, reads>>

Suspended == pc \in {"unresumed", "suspended"}

\* The caller's own next(): it resumes the generator.
Next_ ==
    /\ ~finalizing
    /\ Suspended
    /\ SetGen(ResumeGen(Gen))
    /\ UNCHANGED <<Inputs, finalizing, pulled, result, nones, Apart>>

\* The caller calls calc_result.
CalcResult ==
    /\ ~finalizing
    /\ pc \in {"unresumed", "suspended", "returned"}
    /\ finalizing' = TRUE
    /\ UNCHANGED <<Inputs, GenVars, pulled, result, nones, Apart>>

\* The next() of calc_result's drain loop.
DrainNext ==
    /\ finalizing
    /\ Suspended
    /\ SetGen(ResumeGen(Gen))
    /\ UNCHANGED <<Inputs, finalizing, pulled, result, nones, Apart>>

\* A next() that resumes the generator again after it has returned.
NextAfterReturnResumes(g) == [g EXCEPT !.pc = "loop"]

\* Iterator::next of GenIterReturn once the return value is stored: the
\* generator is not resumed.
NextAfterReturn(g) == g

\* The caller's next() after the generator has returned: None.
NextNone ==
    /\ ~finalizing
    /\ pc = "returned"
    /\ nones < MaxNones
    /\ SetGen(NextAfterReturn(Gen))
    /\ nones' = nones + 1
    /\ UNCHANGED <<Inputs, finalizing, pulled, result, Apart>>

\* calc_result returns.
Finish ==
    /\ finalizing
    /\ pc = "returned"
    /\ result = Nothing
    /\ result' = ReturnOrSelf(ret)
    /\ UNCHANGED <<Inputs, GenVars, finalizing, pulled, nones, Apart>>

DoCheckEmpty ==
    /\ pc = "begin"
    /\ SetGen(CheckEmpty(Gen))
    /\ UNCHANGED <<Inputs, finalizing, pulled, result, nones, Apart>>

DoLoopTop ==
    /\ pc = "loop"
    /\ SetGen(LoopTop(Gen))
    /\ UNCHANGED <<Inputs, finalizing, pulled, result, nones, Apart>>

\* A selection whose choice among the cells of least entropy depends on
\* something else than the shape and the draws.
DoSelectUnordered ==
    /\ pc = "select"
    /\ LET open == {id \in Ids(size) : ~NodeIsCollapsed(nodes, id)}
           least == {id \in open : \A o \in open :
                        Possibilities(nodes, id) <= Possibilities(nodes, o)}
       IN  \/ /\ open = {}
              /\ SetGen(Panicked(Gen))
           \/ \E n \in least :
                 SetGen([Gen EXCEPT !.first_node = n, !.pc = "collapse"])
    /\ UNCHANGED <<Inputs, finalizing, pulled, result, nones, Apart>>

DoSelect ==
    /\ pc = "select"
    /\ SetGen(SelectFirstNode(Gen))
    /\ UNCHANGED <<Inputs, finalizing, pulled, result, nones, Apart>>

DoCollapse ==
    /\ pc = "collapse"
    /\ \/ /\ Choices(Gen) = {}
          /\ SetGen(CollapseNode(Gen, 0))
       \/ \E d \in Choices(Gen) : SetGen(CollapseNode(Gen, d))
    /\ UNCHANGED <<Inputs, finalizing, pulled, result, nones, Apart>>

DoPropagate ==
    /\ pc = "propagate"
    /\ open_list # <<>>
    /\ SetGen(PropagateNode(Gen))
    /\ UNCHANGED <<Inputs, finalizing, pulled, result, nones, Apart>>

\* A yield placed inside the propagation loop.
DoYieldInsideLoop ==
    /\ pc = "propagate"
    /\ SetGen(YieldShape(Gen))
    /\ pulled' = IF finalizing THEN pulled ELSE pulled + 1
    /\ UNCHANGED <<Inputs, finalizing, result, nones, Apart>>

\* The yield hands the snapshot to whoever called next().
DoYield ==
    /\ pc = "propagate"
    /\ open_list = <<>>
    /\ SetGen(YieldShape(Gen))
    /\ pulled' = IF finalizing THEN pulled ELSE pulled + 1
    /\ UNCHANGED <<Inputs, finalizing, result, nones, Apart>>

Next ==
    \/ Next_
    \/ CalcResult
    \/ DrainNext
    \/ NextNone
    \/ Finish
    \/ DoCheckEmpty
    \/ DoLoopTop
    \/ DoSelect
    \/ DoCollapse
    \/ DoPropagate
    \/ DoYield

Spec == Init /\ [][Next]_vars

----------------------------------------------------------------------------
\* The kernels of Grid2D on their own: a grid of any size up to MaxGrid in
\* each direction, a kernel of odd size, and a kernel built for one cell
\* after the other.

KernelSpecDims == {1, 3, 5}

KernelSizes == [width : 1..MaxGrid, height : 1..MaxGrid]

KernelInit ==
    /\ size \in KernelSizes
    /\ kernel_size \in [width : KernelSpecDims, height : KernelSpecDims]
    /\ mode \in WrappingModes
    /\ solver = "true"
    /\ tiles = <<"A">>
    /\ nodes = NewTileMap(size, tiles)
    /\ pc = "unresumed"
    /\ first_node = NoNode
    /\ open_list = <<>>
    /\ drawn = <<>>
    /\ ret = Nothing
    /\ yields = 0
    /\ finalizing = FALSE
    /\ pulled = 0
    /\ result = Nothing
    /\ collapsed = {}
    /\ filtered = {}
    /\ nones = 0
    /\ kernel = NoKernel
    /\ mutated = NoNode
    /\ reads = {}
    /\ last_collapsed = NoNode
    /\ heap_set = NewHeapSet

\* WaveKernel::new(shape, node) for a node of the grid.
BuildKernel ==
    /\ \E c \in Ids(size) : kernel' = NewKernel(mode, size, kernel_size, c)
    /\ UNCHANGED <<Inputs, GenVars, finalizing, pulled, result, nones,
                   last_collapsed, heap_set>>

\* The offsets a lookup is tried with: up to one beyond the largest radius.
LookupOffsets == -3..3

\* The first kernel.get(x, y) on the kernel that was built.
KernelLookup ==
    /\ kernel # NoKernel
    /\ ~kernel.lookup.done
    /\ \E x \in LookupOffsets, y \in LookupOffsets :
          kernel' = [kernel EXCEPT !.lookup =
                        [x |-> x, y |-> y, done |-> TRUE,
                         node |-> KernelGet(size, kernel_size,
                                            kernel.node_id, x, y)]]
    /\ UNCHANGED <<Inputs, GenVars, finalizing, pulled, result, nones,
                   last_collapsed, heap_set>>

KernelNext ==
    \/ BuildKernel
    \/ KernelLookup

KernelSpec == KernelInit /\ [][KernelNext]_vars

----------------------------------------------------------------------------
\* A BinaryHeapSet of nodes on its own: the cells of one row, with one or
\* two candidates each, pushed and popped in any order.

HeapSetLists == {<<"A">>, <<"A", "B">>}

HeapSetInit ==
    /\ size \in {sz \in Sizes : sz.height = 1 /\ sz.width >= 1}
    /\ kernel_size = [width |-> 1, height |-> 1]
    /\ mode = "Cutoff"
    /\ solver = "true"
    /\ tiles = <<"A", "B">>
    /\ nodes \in [Ids(size) -> HeapSetLists]
    /\ pc = "unresumed"
    /\ first_node = NoNode
    /\ open_list = <<>>
    /\ drawn = <<>>
    /\ ret = Nothing
    /\ yields = 0
    /\ finalizing = FALSE
    /\ pulled = 0
    /\ result = Nothing
    /\ collapsed = {}
    /\ filtered = {}
    /\ nones = 0
    /\ kernel = NoKernel
    /\ mutated = NoNode
    /\ reads = {}
    /\ last_collapsed = NoNode
    /\ heap_set = NewHeapSet

HeapSetPushCall ==
    /\ \E x \in Ids(size) : heap_set' = HeapSetPush(heap_set, x, nodes)
    /\ UNCHANGED <<Inputs, GenVars, finalizing, pulled, result, nones,
                   kernel, last_collapsed>>

HeapSetPopCall ==
    /\ heap_set' = HeapSetPop(heap_set, nodes)
    /\ UNCHANGED <<Inputs, GenVars, finalizing, pulled, result, nones,
                   kernel, last_collapsed>>

HeapSetNext ==
    \/ HeapSetPushCall
    \/ HeapSetPopCall

HeapSetSpec == HeapSetInit /\ [][HeapSetNext]_vars

----------------------------------------------------------------------------
\* The run that calc_result makes when it is called before any next(): the
\* generator is driven from its start to its end with the draws of `drawn`.

InitGen == [nodes |-> NewTileMap(size, tiles), pc |-> "unresumed",
            first_node |-> NoNode, open_list |-> <<>>, drawn |-> <<>>,
            ret |-> Nothing, yields |-> 0, collapsed |-> {}, filtered |-> {},
            mutated |-> NoNode, reads |-> {}]

RECURSIVE Replay(_, _)
Replay(g, k) ==
    CASE g.pc \in {"unresumed", "suspended"} -> Replay(ResumeGen(g), k)
      [] g.pc = "begin" -> Replay(CheckEmpty(g), k)
      [] g.pc = "loop" -> Replay(LoopTop(g), k)
      [] g.pc = "select" -> Replay(SelectFirstNode(g), k)
      [] g.pc = "collapse" ->
            IF Choices(g) = {} THEN Replay(CollapseNode(g, 0), k)
            ELSE IF k < Len(drawn)
                 THEN Replay(CollapseNode(g, drawn[k + 1]), k + 1)
                 ELSE [kind |-> "Undetermined"]
      [] g.pc = "propagate" ->
            IF g.open_list = <<>> THEN Replay(YieldShape(g), k)
            ELSE Replay(PropagateNode(g), k)
      [] g.pc = "returned" -> ReturnOrSelf(g.ret)
      [] g.pc = "panicked" -> [kind |-> "Panic"]

----------------------------------------------------------------------------
\* The claims

NumCells == size.width * size.height

Ended == pc \in {"returned", "panicked"}

\* The snapshot of the y-th yield of the run on the shape, the predicate and
\* the draws of this state.
RECURSIVE ReplayYield(_, _, _)
ReplayYield(g, k, y) ==
    CASE g.pc = "suspended" /\ g.yields = y ->
            [kind |-> "Yield", shape |-> g.nodes]
      [] g.pc = "unresumed" \/ (g.pc = "suspended" /\ g.yields # y) ->
            ReplayYield(ResumeGen(g), k, y)
      [] g.pc = "begin" -> ReplayYield(CheckEmpty(g), k, y)
      [] g.pc = "loop" -> ReplayYield(LoopTop(g), k, y)
      [] g.pc = "select" -> ReplayYield(SelectFirstNode(g), k, y)
      [] g.pc = "collapse" ->
            IF Choices(g) = {} THEN ReplayYield(CollapseNode(g, 0), k, y)
            ELSE IF k < Len(drawn)
                 THEN ReplayYield(CollapseNode(g, drawn[k + 1]), k + 1, y)
                 ELSE [kind |-> "Undetermined", shape |-> g.nodes]
      [] g.pc = "propagate" ->
            IF g.open_list = <<>> THEN ReplayYield(YieldShape(g), k, y)
            ELSE ReplayYield(PropagateNode(g), k, y)
      [] g.pc = "returned" -> [kind |-> "Returned", shape |-> g.nodes]
      [] g.pc = "panicked" -> [kind |-> "Panic", shape |-> g.nodes]

\* C1: on a run that ends with Ok, every cell of the returned shape has
\* exactly one candidate and that value satisfies the compatibility
\* predicate against the kernel of its cell in the final shape.
C1_OkShapeIsValid ==
    (pc = "returned" /\ ret.kind = "Ok") =>
        \A id \in Ids(size) :
            /\ Len(ret.shape[id]) = 1
            /\ IsValid(solver, ret.shape[id][1], ret.shape, size, kernel_size, id)

\* C2: at the top of an outer iteration, when not all cells are collapsed
\* and at least one cell has no candidate, the step returns
\* Err(InvalidSuperposition) and selects and collapses no cell.
C2_AnyOverspecifiedFails ==
    [][(/\ pc = "loop"
        /\ ~ShapeIsCollapsed(nodes)
        /\ \E id \in Ids(size) : NodeIsOverspecified(nodes, id))
       => (/\ pc' = "returned"
           /\ ret' = ErrKind("InvalidSuperposition")
           /\ first_node' = first_node
           /\ nodes' = nodes)]_vars

\* The cells the selection may pick: neither collapsed nor overspecified.
Selectable(ns) == {id \in DOMAIN ns : Len(ns[id]) > 1}

\* C3: when the selection step is reached a selectable cell exists, and the
\* cell selected is not collapsed, has at least one candidate and has the
\* least entropy among the selectable cells.
C3_SelectionIsSelectable ==
    /\ pc = "select" => Selectable(nodes) # {}
    /\ pc = "collapse" =>
          /\ first_node \in Selectable(nodes)
          /\ \A id \in Selectable(nodes) :
                Possibilities(nodes, first_node) <= Possibilities(nodes, id)

\* C4: a run driven to its end never aborts part-way, and what calc_result
\* returns is Ok(shape) or Err(kind).
C4_RunEndsWithOkOrErr ==
    /\ pc # "panicked"
    /\ result # Nothing => result.kind \in {"Ok", "Err"}

\* C5: a run on a shape with zero cells ends with Err(EmptyInput) before any
\* outer iteration: nothing is yielded and no cell is selected.
C5_EmptyInput ==
    NumCells = 0 =>
        /\ pc \in {"unresumed", "begin", "returned"}
        /\ pc = "returned" => ret = ErrKind("EmptyInput")
        /\ result # Nothing => result = ErrKind("EmptyInput")
        /\ yields = 0
        /\ first_node = NoNode

\* C5's case: calc_result has answered EmptyInput for an empty shape.
C5_Witness == NumCells = 0 /\ result = ErrKind("EmptyInput")

\* C6: with a predicate that is always true, a run on a grid of N >= 1 cells
\* with any non-empty candidate list ends with Ok after exactly N yields.
C6_AlwaysTrueTakesNIterations ==
    (solver = "true" /\ NumCells >= 1 /\ Ended) =>
        (pc = "returned" /\ ret.kind = "Ok" /\ yields = NumCells)

\* C7: with a predicate that is always false, a run on a non-empty grid ends
\* with Err(InvalidSuperposition) after at most one propagation pass.
C7_AlwaysFalseFails ==
    (solver = "false" /\ NumCells >= 1 /\ Ended) =>
        (pc = "returned" /\ ret = ErrKind("InvalidSuperposition") /\ yields <= 1)

\* C8: a run on a single-cell grid ends, for any predicate, with Ok after
\* exactly one yield, the cell holding one of the initial candidates.
C8_SingleCellOneIteration ==
    (NumCells = 1 /\ Ended) =>
        /\ pc = "returned"
        /\ ret.kind = "Ok"
        /\ yields = 1
        /\ Len(ret.shape[<<0, 0>>]) = 1
        /\ ret.shape[<<0, 0>>][1] \in SeqToSet(tiles)

\* The 2x1 grid of scenario 2: candidates A and B, a 3x1 cutoff kernel, the
\* predicate "the neighbour has a candidate different from the value".
Scenario2 ==
    /\ size = [width |-> 2, height |-> 1]
    /\ kernel_size = [width |-> 3, height |-> 1]
    /\ mode = "Cutoff"
    /\ solver = "neq"
    /\ SeqToSet(tiles) = {"A", "B"}

\* C9: every run of scenario 2 ends with Ok and the two cells hold
\* different values.
C9_TwoCellsDiffer ==
    (Scenario2 /\ Ended) =>
        /\ pc = "returned"
        /\ ret.kind = "Ok"
        /\ Len(ret.shape[<<0, 0>>]) = 1
        /\ Len(ret.shape[<<1, 0>>]) = 1
        /\ ret.shape[<<0, 0>>] # ret.shape[<<1, 0>>]

\* C10: whatever number of snapshots the caller took with next() before it
\* called calc_result, calc_result returns what it returns for the same
\* shape, predicate and draws when it is called first; and a run that
\* panics, panics there too.
C10_FinalizeIndependentOfPulls ==
    /\ result # Nothing => result = Replay(InitGen, 0)
    /\ pc = "panicked" => Replay(InitGen, 0).kind = "Panic"

\* C10's case: calc_result answered Ok after the caller took some, not all,
\* of the snapshots.
C10_Witness ==
    /\ result.kind = "Ok"
    /\ pulled >= 1
    /\ pulled < yields

\* C11: once the generator has returned its Ok or Err, a further next()
\* returns no snapshot and the cells, the stored return value and the
\* position of the generator stay as they are.
C11_NextAfterEndIsNone ==
    [][pc = "returned" =>
          /\ pc' = "returned"
          /\ nodes' = nodes
          /\ ret' = ret
          /\ yields' = yields
          /\ pulled' = pulled]_vars

\* C11's case: two next() calls were answered None after an Ok.
C11_Witness ==
    /\ pc = "returned"
    /\ ret.kind = "Ok"
    /\ nones >= 2

C13_KernelSymmetric ==
    kernel # NoKernel =>
        \A n \in Ids(size) :
            n \in SeqToSet(kernel.ids) <=>
                kernel.node_id \in
                    SeqToSet(KernelIterNodeIds(mode, size, kernel_size, n))

\* C13's case: a wrapping kernel wider and higher than its grid, built for a
\* cell on the border.
C13_Witness ==
    /\ kernel # NoKernel
    /\ mode = "Wrapping"
    /\ size.width = 2 /\ size.height = 3
    /\ kernel_size.width = 5 /\ kernel_size.height = 5
    /\ kernel.node_id = <<1, 0>>
    /\ SeqToSet(kernel.ids) = Ids(size)

\* C14: during propagation no cell id occurs twice in the propagation queue:
\* a push of a cell that is already enqueued leaves the queue as it is.
C14_QueueHasNoDuplicates ==
    \A i, j \in 1..Len(open_list) :
        open_list[i] = open_list[j] => i = j

\* C15: in every state of a run, a cell that has been collapsed has exactly
\* one candidate.
C15_CollapsedHasOneCandidate ==
    \A id \in collapsed : Len(nodes[id]) = 1

\* C16: once a cell has been collapsed, no later step of the run changes its
\* candidate list.
C16_CollapsedNeverChanges ==
    [][\A id \in collapsed : nodes'[id] = nodes[id]]_vars

\* What Vec::retain and collapse_node can make of a list t: s keeps some of
\* the elements of t, in the order of t.
RECURSIVE IsSubsequence(_, _)
IsSubsequence(s, t) ==
    IF s = <<>> THEN TRUE
    ELSE IF t = <<>> THEN FALSE
    ELSE IF Head(s) = Head(t) THEN IsSubsequence(Tail(s), Tail(t))
    ELSE IsSubsequence(s, Tail(t))

\* C17: from one step of the solver to the next, no cell gains a candidate:
\* the candidates a cell has after the step are candidates it had before,
\* in the same order.
C17_CandidatesOnlyShrink ==
    [][\A id \in Ids(size) :
          /\ Len(nodes'[id]) <= Len(nodes[id])
          /\ IsSubsequence(nodes'[id], nodes[id])]_vars

\* C17's case: filtering has left a cell that was never selected with the
\* second of its two candidates.
C17_Witness ==
    \E id \in Ids(size) :
        /\ id \notin collapsed
        /\ Len(tiles) = 2
        /\ nodes[id] = <<tiles[2]>>

\* C18: whenever the generator is suspended at its yield, the propagation
\* queue of the outer iteration is empty.
C18_SuspendedOnlyAtYield ==
    pc = "suspended" => open_list = <<>>

\* C18's case: a snapshot handed to next() after a propagation that went
\* through several cells.
C18_Witness ==
    /\ pc = "suspended"
    /\ ~finalizing
    /\ pulled >= 1
    /\ Cardinality(filtered) >= 3

\* Some cell has no candidate left.
SomeOverspecified(ns) == \E id \in DOMAIN ns : NodeIsOverspecified(ns, id)

\* C19: once a cell has been emptied, the propagation of that outer
\* iteration goes on until the queue is empty and the iteration yields; the
\* check at the top of the loop of the following advance then returns
\* Err(InvalidSuperposition).
C19_FailureOnlyAtLoopTop ==
    [][/\ (pc = "propagate" /\ SomeOverspecified(nodes)) =>
            pc' \in {"propagate", "suspended"}
       /\ (pc = "loop" /\ SomeOverspecified(nodes)) =>
            (pc' = "returned" /\ ret' = ErrKind("InvalidSuperposition"))]_vars

\* C20: when an outer iteration yields, every cell of the kernel of the cell
\* it collapsed, other than that cell and the collapsed cells, has been
\* popped from the queue and filtered in that iteration.
C20_NeighboursOfCollapsedFiltered ==
    pc = "suspended" =>
        \A n \in SeqToSet(KernelIterNodeIds(mode, size, kernel_size,
                                            first_node)) :
            (n # first_node /\ n \notin collapsed) => n \in filtered

\* C21: a pass of the propagation loop whose popped cell n changed adds to
\* the queue exactly the cells of the kernel of n, other than n, that are
\* not collapsed, and a pass whose cell did not change adds nothing; so no
\* collapsed cell is ever pushed.
C21_OnlyUncollapsedNeighboursPushed ==
    [][(pc = "propagate" /\ open_list # <<>> /\ pc' = "propagate") =>
          LET p == HeapPop(open_list, nodes)
              n == p.item
              ids == SeqToSet(KernelIterNodeIds(mode, size, kernel_size, n))
              expected == IF nodes'[n] # nodes[n]
                          THEN {k \in ids : k # n /\ k \notin collapsed}
                          ELSE {}
          IN  SeqToSet(open_list') = SeqToSet(p.data) \cup expected]_vars

\* C22: the cell a pop returns has, at that moment, no more candidates than
\* any cell that stays enqueued, and the pass that follows the pop changes
\* the number of candidates of no cell that stays enqueued.
C22_PopReturnsLeastEntropy ==
    [][(pc = "propagate" /\ open_list # <<>>) =>
          LET p == HeapPop(open_list, nodes)
          IN  \A i \in 1..Len(p.data) :
                  /\ Len(nodes[p.item]) <= Len(nodes[p.data[i]])
                  /\ Len(nodes'[p.data[i]]) = Len(nodes[p.data[i]])]_vars

\* C23: after any sequence of push and pop on a BinaryHeapSet the ids in
\* its set are the ids in its heap, each once; a push answers true exactly
\* if its value was not in the heap, and then the value is in the heap; a
\* pop answers a value that is in the heap no more.
C23_HeapAndSetAgree ==
    LET hs == heap_set
        in_heap(x) == \E i \in 1..Len(hs.heap) : hs.heap[i] = x
    IN  /\ SeqToSet(hs.heap) = hs.set
        /\ Len(hs.heap) = Cardinality(hs.set)
        /\ hs.last.op = "push" =>
              /\ hs.last.ret <=> ~hs.last.enqueued
              /\ in_heap(hs.last.value)
        /\ (hs.last.op = "pop" /\ hs.last.ret) => ~in_heap(hs.last.value)

\* C23's case: a value is pushed, popped and then admitted again, while
\* another value is in the heap.
C23_Witness ==
    /\ heap_set.last.op = "push"
    /\ heap_set.last.ret
    /\ heap_set.last.value = heap_set.popped
    /\ Len(heap_set.heap) >= 2

\* The selection step chooses the cell n.
SelectsNode(n) == DoSelect /\ first_node' = n

\* The not collapsed cells with candidates that have the fewest candidates
\* among them.
TiedAtMinimum(ns) ==
    {id \in Selectable(ns) :
        \A o \in Selectable(ns) : Len(ns[id]) <= Len(ns[o])}

\* C24: at the selection step, each of the cells tied at the minimum
\* entropy can be the one that is selected.
C24_EveryTiedCellCanBeSelected ==
    pc = "select" =>
        \A n \in TiedAtMinimum(nodes) : ENABLED SelectsNode(n)

\* TileMap2D::get_last_collapsed_id, <<>> for None.
GetLastCollapsedId == last_collapsed

\* C25: last_collapsed is None before the first collapse of a run, and at
\* every yield it is the id of the cell that the outer iteration selected and
\* collapsed.
C25_LastCollapsedIsSelectedCell ==
    /\ collapsed = {} => GetLastCollapsedId = NoNode
    /\ pc = "suspended" => GetLastCollapsedId = first_node

\* C26: kernel.get(x, y) answers None for an offset beyond a radius; for an
\* offset within the radii the cutoff kernel answers the cell at the centre
\* plus the offset if that lies in the grid and None if not, and the
\* wrapping kernel answers the cell at the centre plus the offset modulo the
\* width and the height of the grid.
C26_KernelGet ==
    kernel.lookup.done =>
        LET x == kernel.lookup.x
            y == kernel.lookup.y
            cx == kernel.node_id[1] + x
            cy == kernel.node_id[2] + y
            inside == /\ 0 <= cx /\ cx < size.width
                      /\ 0 <= cy /\ cy < size.height
        IN  IF Abs(x) > RadiusX(kernel_size) \/ Abs(y) > RadiusY(kernel_size)
            THEN kernel.lookup.node = NoNode
            ELSE IF mode = "Cutoff"
            THEN kernel.lookup.node = IF inside THEN <<cx, cy>> ELSE NoNode
            ELSE kernel.lookup.node = <<cx % size.width, cy % size.height>>

====
